---- MODULE Spec2Model ----
(***************************************************************************)
(* Model of ros2bag_tools/filter/restamp.py: the RestampFilter extension.  *)
(*                                                                         *)
(* The filter object is constructed (Init), configured once by set_args    *)
(* (SetArgs) and then fed one serialized record per filter_msg call        *)
(* (FilterMsg).  Program state is the filter's attributes; the variables   *)
(* listed under "history" record the last call's argument and result, so   *)
(* that properties relating input to output can be stated.  Every record   *)
(* carries two fields the code never reads: id, the position of the input  *)
(* record in the stream (the identity of the message object), and, in a    *)
(* delayed entry, mvt0, the value of _min_valid_time when it was delayed.  *)
(*                                                                         *)
(* Messages are records whose fields are the attributes the code tests:    *)
(*   [header |-> [stamp |-> s]]              any type with a header        *)
(*   [transforms |-> <<[header |-> ..], ..>>] tf2_msgs/TFMessage           *)
(*   [markers |-> <<[header |-> ..], ..>>]    visualization_msgs/MarkerArray*)
(*   [data |-> "x"]                           a type without header        *)
(* A stamp is a builtin_interfaces/Time value [sec, nanosec].              *)
(***************************************************************************)
EXTENDS Integers, Sequences, FiniteSets, Bags, TLC

VARIABLES
    pc,              \* "new" after __init__, "ready" after set_args
    invert,          \* self._invert
    offset_topics,   \* self._offset_topics
    offset,          \* self._offset.nanoseconds
    offset_header,   \* self._offset_header
    delayed_msgs,    \* self._delayed_msgs: sequence of [topic, msg, data, t]
    min_valid_time,  \* self._min_valid_time: None or Some(ns)
    warned,          \* the warnings logged through warn_once: a bag of messages
    \* history
    n,               \* number of filter_msg calls made; the k-th record has id k
    rec,             \* argument of the last filter_msg call (with its id)
    out,             \* result of the last call: sequence of (topic, data, t)
    dropped,         \* ids of records dropped without being delayed
    emitted,         \* ids of records emitted so far
    seen,            \* positive embedded times read so far by t_from_header
    args             \* what set_args was called with: the topics of the
                     \* metadatas and the --offset-topic patterns

vars == <<pc, invert, offset_topics, offset, offset_header, delayed_msgs,
          min_valid_time, warned, n, rec, out, dropped, emitted, seen, args>>

config == <<invert, offset_topics, offset, offset_header>>

----------------------------------------------------------------------------
(* Bounds and input sets *)

MaxRecords == 3

NanosPerSec == 1000000000

None == <<>>
Some(v) == <<v>>
IsSome(o) == o # <<>>
Val(o) == o[1]

MinOf(S) == CHOOSE x \in S : \A y \in S : x <= y

RangeOf(s) == {s[i] : i \in DOMAIN s}

----------------------------------------------------------------------------
(* rclpy.time.Time conversions used by the filter *)

\* Time(nanoseconds=ns).to_msg()
to_msg(ns) == [sec |-> ns \div NanosPerSec, nanosec |-> ns % NanosPerSec]

\* Time.from_msg(stamp).nanoseconds
from_msg(stamp) == stamp.sec * NanosPerSec + stamp.nanosec

\* hasattr(msg, 'header')
HasHeader(msg) == "header" \in DOMAIN msg

\* isinstance(msg, TFMessage)
IsTFMessage(msg) == "transforms" \in DOMAIN msg

\* isinstance(msg, MarkerArray)
IsMarkerArray(msg) == "markers" \in DOMAIN msg

\* the codec: serialize_message(msg) and self._deserializer.deserialize(topic, data)
serialize_message(msg) == [cdr |-> msg]

deserialize(topic, data) == data.cdr

----------------------------------------------------------------------------
(* Module-level functions *)

Restamped(elems, t) == [i \in DOMAIN elems |-> [header |-> [stamp |-> to_msg(t)]]]

\* mutant: the MarkerArray branch is missing
set_header_stamp_no_markers(msg, t) ==
    IF HasHeader(msg) THEN [msg EXCEPT !.header.stamp = to_msg(t)]
    ELSE IF IsTFMessage(msg) THEN [msg EXCEPT !.transforms = Restamped(@, t)]
    ELSE msg

set_header_stamp(msg, t) ==
    IF HasHeader(msg) THEN [msg EXCEPT !.header.stamp = to_msg(t)]
    ELSE IF IsTFMessage(msg) THEN [msg EXCEPT !.transforms = Restamped(@, t)]
    ELSE IF IsMarkerArray(msg) /\ Len(msg.markers) > 0
         THEN [msg EXCEPT !.markers = Restamped(@, t)]
    ELSE msg

Times(elems) == {from_msg(elems[i].header.stamp) : i \in DOMAIN elems}

\* mutant: an empty collection reads as time 0
t_from_header_empty_zero(msg) ==
    IF HasHeader(msg) THEN Some(from_msg(msg.header.stamp))
    ELSE IF IsTFMessage(msg)
         THEN IF Len(msg.transforms) > 0
              THEN Some(MinOf(Times(msg.transforms))) ELSE Some(0)
    ELSE IF IsMarkerArray(msg)
         THEN IF Len(msg.markers) > 0
              THEN Some(MinOf(Times(msg.markers))) ELSE Some(0)
    ELSE None

\* mutant: the first element's time instead of the minimum
t_from_header_first(msg) ==
    IF HasHeader(msg) THEN Some(from_msg(msg.header.stamp))
    ELSE IF IsTFMessage(msg)
         THEN IF Len(msg.transforms) > 0
              THEN Some(from_msg(msg.transforms[1].header.stamp)) ELSE None
    ELSE IF IsMarkerArray(msg) /\ Len(msg.markers) > 0
         THEN Some(from_msg(msg.markers[1].header.stamp))
    ELSE None

t_from_header(msg) ==
    IF HasHeader(msg) THEN Some(from_msg(msg.header.stamp))
    ELSE IF IsTFMessage(msg)
         THEN IF Len(msg.transforms) > 0
              THEN Some(MinOf(Times(msg.transforms))) ELSE None
    ELSE IF IsMarkerArray(msg) /\ Len(msg.markers) > 0
         THEN Some(MinOf(Times(msg.markers)))
    ELSE None

----------------------------------------------------------------------------
(* set_args *)

\* re.match(r, topic_name) for the patterns used here: literal characters,
\* optionally ended by "$".  re.match anchors at the start only.
IsPrefix(p, s) == Len(p) <= Len(s) /\ SubSeq(s, 1, Len(p)) = p

re_match(r, topic_name) ==
    IF Len(r) > 0 /\ r[Len(r)] = "$"
    THEN SubSeq(r, 1, Len(r) - 1) = topic_name
    ELSE IsPrefix(r, topic_name)

\* mutant: a topic counts by its name, listed or not
ResolveOffsetTopics_by_name(catalogue, offset_topic) ==
    {name \in {<<"t", "f">>, <<"t", "f", "s">>} :
        \E r \in offset_topic : re_match(r, name)}

\* lines 92-97
ResolveOffsetTopics(catalogue, offset_topic) ==
    {name \in catalogue : \E r \in offset_topic : re_match(r, name)}

----------------------------------------------------------------------------
(* _add_header_offset *)

Shifted(elems, off) ==
    [i \in DOMAIN elems |->
        [header |-> [stamp |-> to_msg(from_msg(elems[i].header.stamp) + off)]]]

add_header_offset(msg, off) ==
    IF HasHeader(msg)
    THEN [msg EXCEPT !.header.stamp = to_msg(from_msg(@) + off)]
    ELSE IF IsTFMessage(msg) THEN [msg EXCEPT !.transforms = Shifted(@, off)]
    ELSE IF IsMarkerArray(msg) /\ Len(msg.markers) > 0
         THEN [msg EXCEPT !.markers = Shifted(@, off)]
    ELSE msg

----------------------------------------------------------------------------
(* Notions the properties are stated in: the time fields of a payload, read *)
(* off the message's structure, and the payload's embedded time.            *)

Ns(stamp) == stamp.sec * NanosPerSec + stamp.nanosec

ElemTimes(elems) == [i \in DOMAIN elems |-> Ns(elems[i].header.stamp)]

TimeFields(msg) ==
    IF "header" \in DOMAIN msg THEN <<Ns(msg.header.stamp)>>
    ELSE IF "transforms" \in DOMAIN msg THEN ElemTimes(msg.transforms)
    ELSE IF "markers" \in DOMAIN msg THEN ElemTimes(msg.markers)
    ELSE <<>>

EmbeddedTime(msg) ==
    IF TimeFields(msg) = <<>> THEN None
    ELSE Some(MinOf(RangeOf(TimeFields(msg))))

PositiveTimes(msg) ==
    IF IsSome(EmbeddedTime(msg)) /\ Val(EmbeddedTime(msg)) > 0
    THEN {Val(EmbeddedTime(msg))} ELSE {}

----------------------------------------------------------------------------
(* Inputs *)

TopicTf == <<"t", "f">>
TopicTfStatic == <<"t", "f", "s">>
Topics == {TopicTf, TopicTfStatic}

\* values of --offset-topic: each matches both topics, the first only, the second only
Patterns == {<<"t", "f">>, <<"t", "f", "$">>, <<"t", "f", "s">>}

\* values of --offset: the default, and 1.000000005 s
Offsets == {0, NanosPerSec + 5}

\* recorder timestamps of the records
RecTimes == {0, 3}

Elem(ns) == [header |-> [stamp |-> to_msg(ns)]]
Stamped(ns) == Elem(ns)
TFMessage(s) == [transforms |-> [i \in DOMAIN s |-> Elem(s[i])]]
MarkerArray(s) == [markers |-> [i \in DOMAIN s |-> Elem(s[i])]]
Plain == [data |-> "x"]

\* The messages fed to the filter.  Stamps and recorder timestamps are the
\* non-negative values rclpy.time.Time holds, so the branch new_t <= 0 of
\* filter_msg is taken by a zero stamp; the two-element payloads have their
\* minimum in second place.
Msgs ==
    { Stamped(0), Stamped(1), Stamped(2),
      TFMessage(<<>>), TFMessage(<<0>>), TFMessage(<<2, 0>>), TFMessage(<<2, 1>>),
      MarkerArray(<<>>), MarkerArray(<<1, 0>>), MarkerArray(<<2, 1>>),
      Plain }

\* the --offset-topic lists of the runs whose bag lists every topic
PatternLists == {{}} \cup {{r} : r \in Patterns}

\* the records of the runs whose bag may lack topics
CatalogueMsgs == {Stamped(0), Stamped(1), TFMessage(<<0>>)}
CatalogueRecTimes == {3}

NoRecord == [topic |-> <<>>, data |-> serialize_message(Plain), t |-> 0, id |-> 0]

----------------------------------------------------------------------------
(* __init__ *)

Init ==
    /\ pc = "new"
    /\ invert = None
    /\ offset_topics = None
    /\ offset = None
    /\ offset_header = None
    /\ delayed_msgs = <<>>
    /\ min_valid_time = None
    /\ warned = EmptyBag
    /\ n = 0
    /\ rec = NoRecord
    /\ out = <<>>
    /\ dropped = {}
    /\ emitted = {}
    /\ seen = {}
    /\ args = None

SetArgs(a_invert, catalogue, a_offset_topic, a_offset, a_offset_header) ==
    /\ pc = "new"
    /\ pc' = "ready"
    /\ invert' = a_invert
    /\ offset_topics' = ResolveOffsetTopics(catalogue, a_offset_topic)
    /\ offset' = a_offset
    /\ offset_header' = a_offset_header
    /\ args' = [metadatas |-> catalogue, offset_topic |-> a_offset_topic]
    /\ UNCHANGED <<delayed_msgs, min_valid_time, warned, n, rec, out, dropped, emitted, seen>>

----------------------------------------------------------------------------
(* filter_msg and _process_delayed_messages *)

\* ros2bag_tools.logging.warn_once: msg is logged unless it was logged before
warn_once(logged, msg) ==
    IF BagIn(msg, logged) THEN logged ELSE logged (+) SetToBag({msg})

\* mutant: the message does not name the topic
NoHeaderWarning_no_topic(topic) == <<<<>>, "has no header, using bag timestamp instead">>

\* the messages of lines 132, 141 and 166
NoHeaderWarning(topic) == <<topic, "has no header, using bag timestamp instead">>
DelayingWarning(topic, new_t) == <<"Delaying message from", topic, new_t>>
AssigningWarning(mvt, topic) == <<"Assigning minimum valid timestamp", mvt, topic>>

\* the warn_once calls of the loop of _process_delayed_messages over the
\* first k entries of self._delayed_msgs
RECURSIVE WarnAssigning(_, _, _)
WarnAssigning(logged, mvt, k) ==
    IF k = 0 THEN logged
    ELSE warn_once(WarnAssigning(logged, mvt, k - 1),
                   AssigningWarning(Val(mvt), delayed_msgs[k].topic))

\* the log after _process_delayed_messages, with _min_valid_time = mvt
WarnedAfterProcess(logged, mvt) ==
    IF mvt = None THEN logged ELSE WarnAssigning(logged, mvt, Len(delayed_msgs))

\* mutant: the invert flag is ignored
InvertMode_off == FALSE

\* line 126
InvertMode == invert

\* mutant: the last positive time instead of the smallest
UpdatedMinValidTime_last(mvt, new_t) == Some(new_t)

\* lines 136-137
UpdatedMinValidTime(mvt, new_t) ==
    IF mvt = None \/ new_t < Val(mvt) THEN Some(new_t) ELSE mvt

\* mutant: the type test asks for a header
IsDelayable_headers(msg) == HasHeader(msg)

\* mutant: MarkerArray messages are delayed too
IsDelayable_markers(msg) == IsTFMessage(msg) \/ IsMarkerArray(msg)

\* line 139: which messages with new_t <= 0 are delayed instead of dropped
IsDelayable(msg) == IsTFMessage(msg)

\* lines 145-146 and 169-170
OffsetT(topic, t) == IF topic \in offset_topics THEN t + offset ELSE t

\* mutant: the --offset-header flag is ignored
OffsetMsg_topic_only(topic, msg) ==
    IF topic \in offset_topics THEN add_header_offset(msg, offset) ELSE msg

\* lines 148-149 and 172-173
OffsetMsg(topic, msg) ==
    IF offset_header /\ topic \in offset_topics
    THEN add_header_offset(msg, offset) ELSE msg

\* mutant: the delayed message keeps the time it was stored with
ProcessedMsgs_stored_time(mvt) ==
    [i \in DOMAIN delayed_msgs |->
        [topic |-> delayed_msgs[i].topic,
         data  |-> serialize_message(OffsetMsg(delayed_msgs[i].topic, delayed_msgs[i].msg)),
         t     |-> OffsetT(delayed_msgs[i].topic, delayed_msgs[i].t),
         id    |-> delayed_msgs[i].id]]

\* mutant: the delayed payload is restamped with _min_valid_time
ProcessedMsgs_restamped(mvt) ==
    [i \in DOMAIN delayed_msgs |->
        [topic |-> delayed_msgs[i].topic,
         data  |-> serialize_message(OffsetMsg(delayed_msgs[i].topic,
                        set_header_stamp(delayed_msgs[i].msg, Val(mvt)))),
         t     |-> OffsetT(delayed_msgs[i].topic, Val(mvt)),
         id    |-> delayed_msgs[i].id]]

\* mutant: the delayed messages come out newest first
ProcessedMsgs_reversed(mvt) ==
    [i \in DOMAIN delayed_msgs |->
        LET d == delayed_msgs[Len(delayed_msgs) + 1 - i]
        IN [topic |-> d.topic,
            data  |-> serialize_message(OffsetMsg(d.topic, d.msg)),
            t     |-> OffsetT(d.topic, Val(mvt)),
            id    |-> d.id]]

\* the loop of _process_delayed_messages over self._delayed_msgs
ProcessedMsgs(mvt) ==
    [i \in DOMAIN delayed_msgs |->
        [topic |-> delayed_msgs[i].topic,
         data  |-> serialize_message(OffsetMsg(delayed_msgs[i].topic, delayed_msgs[i].msg)),
         t     |-> OffsetT(delayed_msgs[i].topic, Val(mvt)),
         id    |-> delayed_msgs[i].id]]

\* mutant: a missing _min_valid_time counts as 0
process_delayed_messages_zero(mvt) ==
    ProcessedMsgs(IF mvt = None THEN Some(0) ELSE mvt)

\* the value _process_delayed_messages returns, with _min_valid_time = mvt
process_delayed_messages(mvt) ==
    IF mvt = None THEN <<>> ELSE ProcessedMsgs(mvt)

\* mutant: the list is not cleared
DelayedAfterProcess_keep(mvt) == delayed_msgs

\* self._delayed_msgs after _process_delayed_messages
DelayedAfterProcess(mvt) ==
    IF mvt = None THEN delayed_msgs ELSE <<>>

\* mutant: the delayed messages are processed with the _min_valid_time the
\* call started with
Result_stale(e, mvt) ==
    IF Len(delayed_msgs) = 0 THEN <<e>>
    ELSE <<e>> \o process_delayed_messages(IF min_valid_time = None THEN mvt
                                            ELSE min_valid_time)

\* mutant: the delayed messages are processed and their result thrown away
Result_single(e, mvt) == <<e>>

\* lines 153-157: the value filter_msg returns for the emission e
Result(e, mvt) ==
    IF Len(delayed_msgs) = 0 THEN <<e>> ELSE <<e>> \o process_delayed_messages(mvt)

\* lines 145-157, reached with the record's message msg, its timestamp t,
\* the value mvt of _min_valid_time and the warnings logged so far
Emit(topic, msg, t, mvt, id, logged) ==
    LET e == [topic |-> topic,
              data  |-> serialize_message(OffsetMsg(topic, msg)),
              t     |-> OffsetT(topic, t),
              id    |-> id]
    IN /\ min_valid_time' = mvt
       /\ out' = Result(e, mvt)
       /\ delayed_msgs' = IF Len(delayed_msgs) = 0 THEN delayed_msgs
                          ELSE DelayedAfterProcess(mvt)
       /\ warned' = IF Len(delayed_msgs) = 0 THEN logged
                    ELSE WarnedAfterProcess(logged, mvt)
       /\ emitted' = emitted \cup {out'[i].id : i \in DOMAIN out'}
       /\ dropped' = dropped

\* lines 138-143: new_t <= 0
DelayOrDrop(topic, msg, data, new_t, id) ==
    /\ out' = <<>>
    /\ min_valid_time' = min_valid_time
    /\ IF IsDelayable(msg)
       THEN /\ delayed_msgs' = Append(delayed_msgs,
                     [topic |-> topic, msg |-> msg, data |-> data, t |-> new_t,
                      id |-> id, mvt0 |-> min_valid_time])
            /\ warned' = warn_once(warned, DelayingWarning(topic, new_t))
            /\ dropped' = dropped
       ELSE /\ delayed_msgs' = delayed_msgs
            /\ warned' = warned
            /\ dropped' = dropped \cup {id}
    /\ emitted' = emitted

FilterMsg(topic, data, t) ==
    /\ pc = "ready"
    /\ n < MaxRecords
    /\ n' = n + 1
    /\ rec' = [topic |-> topic, data |-> data, t |-> t, id |-> n + 1]
    /\ LET msg == deserialize(topic, data)
           new_t == t_from_header(msg)
       IN IF InvertMode
          THEN Emit(topic, set_header_stamp(msg, t), t, min_valid_time, n + 1,
                    warned)
          ELSE IF new_t = None
          THEN Emit(topic, msg, t, min_valid_time, n + 1,
                    warn_once(warned, NoHeaderWarning(topic)))
          ELSE IF Val(new_t) > 0
          THEN Emit(topic, msg, Val(new_t),
                    UpdatedMinValidTime(min_valid_time, Val(new_t)), n + 1, warned)
          ELSE DelayOrDrop(topic, msg, data, Val(new_t), n + 1)
    /\ seen' = IF invert THEN seen
               ELSE seen \cup PositiveTimes(deserialize(topic, data))
    /\ UNCHANGED <<pc, invert, offset_topics, offset, offset_header, args>>

\* the bag lists every topic its records are on, and --offset-topic is given
\* at most once
Next ==
    \/ \E a_invert \in BOOLEAN, a_offset_topic \in PatternLists,
          a_offset \in Offsets, a_offset_header \in BOOLEAN :
            SetArgs(a_invert, Topics, a_offset_topic, a_offset, a_offset_header)
    \/ \E topic \in Topics, msg \in Msgs, t \in RecTimes :
            FilterMsg(topic, serialize_message(msg), t)

Spec == Init /\ [][Next]_vars

\* the metadatas may lack topics that records are on, and --offset-topic is
\* given any number of times
NextCatalogue ==
    \/ \E a_invert \in BOOLEAN, catalogue \in SUBSET Topics,
          a_offset_topic \in SUBSET Patterns, a_offset \in Offsets,
          a_offset_header \in BOOLEAN :
            SetArgs(a_invert, catalogue, a_offset_topic, a_offset, a_offset_header)
    \/ \E topic \in Topics, msg \in CatalogueMsgs, t \in CatalogueRecTimes :
            FilterMsg(topic, serialize_message(msg), t)

SpecCatalogue == Init /\ [][NextCatalogue]_vars

----------------------------------------------------------------------------
(* Vocabulary of the properties *)

Forward == pc = "ready" /\ invert = FALSE
Inverted == pc = "ready" /\ invert = TRUE

\* the step is a filter_msg call
Call == n' = n + 1

\* the message of the last record, as decoded
RecMsg == rec.data.cdr

\* the message carried by an emission
Payload(e) == e.data.cdr

Ids(s) == {s[i].id : i \in DOMAIN s}

Positions(s, id) == {i \in DOMAIN s : s[i].id = id}

\* the offset the topic's emissions get, and the one its payloads get
ShiftT(topic) == IF topic \in offset_topics THEN offset ELSE 0
ShiftH(topic) == IF offset_header /\ topic \in offset_topics THEN offset ELSE 0

HasPositiveTime(msg) == IsSome(EmbeddedTime(msg)) /\ Val(EmbeddedTime(msg)) > 0
HasInvalidTime(msg) == IsSome(EmbeddedTime(msg)) /\ Val(EmbeddedTime(msg)) <= 0
IsTF(msg) == "transforms" \in DOMAIN msg

----------------------------------------------------------------------------
\* C1: in forward mode a record whose payload has a positive embedded time T
\* (the minimum over the elements of a multi-element payload) is emitted by
\* the same call, first and once, with timestamp T + offset if its topic is in
\* offset_topics and T otherwise, whatever its recorder timestamp and whatever
\* the filter's state was.
C1_PositiveTimeEmitted ==
    (Forward /\ n > 0 /\ HasPositiveTime(RecMsg)) =>
        /\ Len(out) >= 1
        /\ out[1].id = rec.id
        /\ out[1].topic = rec.topic
        /\ out[1].t = Val(EmbeddedTime(RecMsg))
                        + (IF rec.topic \in offset_topics THEN offset ELSE 0)
        /\ Positions(out, rec.id) = {1}

\* a two-element payload whose minimum is not its first element, on an offset
\* topic, with a recorder timestamp that differs from it, emitted ahead of a
\* flushed entry
C1_Witness ==
    /\ Forward /\ n > 0
    /\ RecMsg = MarkerArray(<<2, 1>>)
    /\ rec.topic \in offset_topics /\ offset > 0
    /\ rec.t = 3
    /\ Len(out) = 2
    /\ out[1].t = 1 + offset

----------------------------------------------------------------------------
C2_Step ==
    (Forward /\ Call) =>
        /\ (IsTF(rec'.data.cdr) /\ HasInvalidTime(rec'.data.cdr)) =>
              /\ out' = <<>>
              /\ Len(delayed_msgs') = Len(delayed_msgs) + 1
              /\ delayed_msgs'[Len(delayed_msgs')].id = rec'.id
              /\ delayed_msgs'[Len(delayed_msgs')].topic = rec'.topic
              /\ delayed_msgs'[Len(delayed_msgs')].msg = rec'.data.cdr
              /\ rec'.id \notin emitted'
        /\ Ids(out') \subseteq {rec'.id} \cup Ids(delayed_msgs)
        /\ \A k \in DOMAIN delayed_msgs :
              LET d == delayed_msgs[k]
              IN /\ d.id \notin emitted
                 /\ \/ /\ Positions(out', d.id) = {}
                       /\ k \in DOMAIN delayed_msgs'
                       /\ delayed_msgs'[k] = d
                    \/ /\ Cardinality(Positions(out', d.id)) = 1
                       /\ Positions(out', rec'.id) # {}
                       /\ d.id \notin Ids(delayed_msgs')
                       /\ d.id \in emitted'
                       /\ min_valid_time' # None
                       /\ \A i \in Positions(out', d.id) :
                             /\ out'[i].topic = d.topic
                             /\ out'[i].t = Val(min_valid_time') + ShiftT(d.topic)
                       /\ (d.mvt0 = None => min_valid_time = None)

----------------------------------------------------------------------------
\* C3 (as claimed): once _min_valid_time is set, any later call empties the
\* delayed list and emits each of its entries once.
C3_Original ==
    [][(Forward /\ Call /\ min_valid_time # None) =>
        /\ delayed_msgs' = <<>>
        /\ \A k \in DOMAIN delayed_msgs :
              Cardinality(Positions(out', delayed_msgs[k].id)) = 1]_vars

\* what one filter_msg call made with _min_valid_time set does to the list
C3_Step ==
    (Forward /\ Call /\ min_valid_time # None) =>
        IF HasInvalidTime(rec'.data.cdr)
        THEN /\ out' = <<>>
             /\ SubSeq(delayed_msgs', 1, Len(delayed_msgs)) = delayed_msgs
        ELSE /\ delayed_msgs' = <<>>
             /\ Len(out') = 1 + Len(delayed_msgs)
             /\ \A k \in DOMAIN delayed_msgs :
                   Cardinality(Positions(out', delayed_msgs[k].id)) = 1

\* C3 (amended): once _min_valid_time is set, any later call whose record is
\* itself emitted (its payload has no embedded time, or a positive one)
\* empties the delayed list and emits each of its entries once; a call whose
\* record has an embedded time <= 0 emits nothing and keeps every entry.
C3_FlushedInFull == [][C3_Step]_vars

\* a record without embedded time has flushed an entry: _min_valid_time was
\* set before the call
C3_Witness ==
    /\ Forward /\ n > 0
    /\ EmbeddedTime(RecMsg) = None
    /\ Len(out) = 2
    /\ out[2].id < rec.id
    /\ delayed_msgs = <<>>
    /\ min_valid_time # None

----------------------------------------------------------------------------
\* _min_valid_time against the positive embedded times read so far
C4_Inv ==
    Forward => min_valid_time = (IF seen = {} THEN None ELSE Some(MinOf(seen)))

\* _min_valid_time across one filter_msg call
C4_Step ==
    (Forward /\ Call) =>
        /\ \/ min_valid_time' = min_valid_time
           \/ min_valid_time = None /\ min_valid_time' # None
           \/ /\ min_valid_time # None /\ min_valid_time' # None
              /\ Val(min_valid_time') < Val(min_valid_time)
        /\ (min_valid_time # None => min_valid_time' # None)

\* C4: in forward mode _min_valid_time is absent while no strictly positive
\* embedded time has been read and is the minimum of those read otherwise; a
\* call leaves it alone or replaces it by a strictly smaller value, and it
\* never becomes absent again.
C4_RunningMinimum == []C4_Inv /\ [][C4_Step]_vars

\* a larger positive time was read after a smaller one and did not replace it
C4_Witness ==
    /\ Forward /\ n >= 2
    /\ seen = {1, 2}
    /\ EmbeddedTime(RecMsg) = Some(2)
    /\ min_valid_time = Some(1)

----------------------------------------------------------------------------
\* the result of one filter_msg call that emits a record other than its own
C5_Step ==
    (Call /\ (\E i \in DOMAIN out' : out'[i].id # rec'.id)) =>
        /\ out'[1].id = rec'.id
        /\ Len(out') = 1 + Len(delayed_msgs)
        /\ \A k \in DOMAIN delayed_msgs :
              /\ out'[k + 1].id = delayed_msgs[k].id
              /\ out'[k + 1].topic = delayed_msgs[k].topic

\* C5: a call that emits delayed entries returns the emission of its own
\* record first and then the entries in the order they were appended to the
\* list, whatever their topics.
C5_FlushOrder == [][C5_Step]_vars

\* two entries delayed on different topics came out after the trigger, oldest
\* first
C5_Witness ==
    /\ n > 0
    /\ Len(out) = 3
    /\ out[1].id = rec.id
    /\ out[2].id < out[3].id
    /\ out[2].topic # out[3].topic

----------------------------------------------------------------------------
\* the call that drops the record
C6_Step ==
    (Forward /\ Call /\ ~IsTF(rec'.data.cdr) /\ HasInvalidTime(rec'.data.cdr)) =>
        /\ out' = <<>>
        /\ delayed_msgs' = delayed_msgs
        /\ min_valid_time' = min_valid_time
        /\ rec'.id \in dropped'

\* a dropped record is neither emitted nor held
C6_Gone ==
    \A id \in dropped : id \notin emitted /\ id \notin Ids(delayed_msgs) /\ id \notin Ids(out)

\* C6: in forward mode a record whose payload has a header, or is a
\* MarkerArray, with embedded time <= 0 is dropped for good: its call emits
\* nothing and changes neither the delayed list nor _min_valid_time, and no
\* later call emits it.
C6_DroppedForGood == []C6_Gone /\ [][C6_Step]_vars

\* the first record was dropped, the second delayed, and the third has
\* flushed the delayed list without the first
C6_Witness ==
    /\ Forward /\ n = 3
    /\ dropped = {1}
    /\ Len(out) = 2
    /\ emitted = {2, 3}

----------------------------------------------------------------------------
\* one filter_msg call after which no positive embedded time has been read
C7_Step ==
    (Forward /\ Call /\ seen' = {}) =>
        /\ Len(out') <= 1
        /\ \A i \in DOMAIN out' : out'[i].id = rec'.id
        /\ Len(delayed_msgs') >= Len(delayed_msgs)
        /\ SubSeq(delayed_msgs', 1, Len(delayed_msgs)) = delayed_msgs
        /\ (out' # <<>> => delayed_msgs' = delayed_msgs)
        /\ Ids(delayed_msgs') \cap emitted' = {}

\* C7: in forward mode, as long as no strictly positive embedded time has been
\* read, no delayed entry is emitted: a call returns at most the emission of
\* its own record, the delayed list only grows, and a call that emits its
\* record leaves the list as it was.
C7_NoFlushWithoutValidTime == [][C7_Step]_vars

\* a record without embedded time was emitted alone while two entries wait
C7_Witness ==
    /\ Forward /\ n = 3
    /\ seen = {}
    /\ min_valid_time = None
    /\ Len(delayed_msgs) = 2
    /\ Len(out) = 1
    /\ out[1].id = rec.id

----------------------------------------------------------------------------
\* C8: in invert mode every record yields exactly one emission in its own
\* call; every time field of the payload is the recorder timestamp t, plus
\* offset if --offset-header is set and the topic is an offset topic; the
\* emitted timestamp is t, plus offset on an offset topic; a payload without
\* time field, or with an empty collection, is emitted unchanged.
C8_InvertRestamps ==
    (Inverted /\ n > 0) =>
        /\ Len(out) = 1
        /\ out[1].id = rec.id
        /\ out[1].topic = rec.topic
        /\ out[1].t = rec.t + (IF rec.topic \in offset_topics THEN offset ELSE 0)
        /\ Len(TimeFields(Payload(out[1]))) = Len(TimeFields(RecMsg))
        /\ \A k \in DOMAIN TimeFields(RecMsg) :
              TimeFields(Payload(out[1]))[k] =
                  rec.t + (IF offset_header /\ rec.topic \in offset_topics
                           THEN offset ELSE 0)
        /\ (TimeFields(RecMsg) = <<>> => Payload(out[1]) = RecMsg)

\* a MarkerArray with two different stamps was restamped to t = 3 and shifted
C8_Witness ==
    /\ Inverted /\ n > 0
    /\ RecMsg = MarkerArray(<<1, 0>>)
    /\ rec.t = 3
    /\ offset_header /\ rec.topic \in offset_topics /\ offset > 0
    /\ TimeFields(Payload(out[1])) = <<3 + offset, 3 + offset>>

----------------------------------------------------------------------------
\* C9: in invert mode the delayed list stays empty and _min_valid_time stays
\* absent whatever records are processed, none is dropped and each has been
\* emitted.
C9_InvertKeepsNoState ==
    Inverted =>
        /\ delayed_msgs = <<>>
        /\ min_valid_time = None
        /\ dropped = {}
        /\ emitted = 1..n

\* records with embedded time 0 and with a positive one have been processed
C9_Witness ==
    /\ Inverted /\ n = 3
    /\ RecMsg = TFMessage(<<0>>)
    /\ emitted = {1, 2, 3}

----------------------------------------------------------------------------
\* C10: in forward mode the payload of a record emitted by its own call has
\* the input's time fields plus offset if --offset-header is set and the
\* topic is an offset topic, and is the input payload unchanged otherwise.
C10_DirectPayload ==
    (Forward /\ n > 0) =>
        \A i \in DOMAIN out : out[i].id = rec.id =>
            /\ Len(TimeFields(Payload(out[i]))) = Len(TimeFields(RecMsg))
            /\ \A k \in DOMAIN TimeFields(RecMsg) :
                  TimeFields(Payload(out[i]))[k] =
                      TimeFields(RecMsg)[k]
                        + (IF offset_header /\ rec.topic \in offset_topics
                           THEN offset ELSE 0)
            /\ (~(offset_header /\ rec.topic \in offset_topics) =>
                    Payload(out[i]) = RecMsg)

\* an offset topic without --offset-header: the timestamp is shifted, the
\* payload is not
C10_Witness ==
    /\ Forward /\ n > 0
    /\ RecMsg = Stamped(2)
    /\ rec.topic \in offset_topics /\ offset > 0 /\ ~offset_header
    /\ Len(out) >= 1
    /\ out[1].t = 2 + offset
    /\ TimeFields(Payload(out[1])) = <<2>>

----------------------------------------------------------------------------
\* the payload and timestamp of every delayed entry a call emits
C11_Step ==
    (Forward /\ Call) =>
        \A k \in DOMAIN delayed_msgs :
            \A i \in Positions(out', delayed_msgs[k].id) :
                LET d == delayed_msgs[k]
                    sent == TimeFields(Payload(out'[i]))
                IN /\ HasInvalidTime(d.msg)
                   /\ Len(sent) = Len(TimeFields(d.msg))
                   /\ \A j \in DOMAIN sent :
                         sent[j] = TimeFields(d.msg)[j]
                                     + (IF offset_header /\ d.topic \in offset_topics
                                        THEN offset ELSE 0)
                   /\ (~(offset_header /\ d.topic \in offset_topics) =>
                           Payload(out'[i]) = d.msg)
                   /\ out'[i].t = Val(min_valid_time')
                                    + (IF d.topic \in offset_topics THEN offset ELSE 0)

\* C11: a flushed entry's payload keeps its own time fields: each equals the
\* value the payload was delayed with, plus offset once if --offset-header is
\* set and the topic is an offset topic; _min_valid_time goes into the emitted
\* timestamp only.
C11_FlushedPayloadKept == [][C11_Step]_vars

\* a TFMessage with stamps 2 and 0 came out with both shifted once while its
\* timestamp is _min_valid_time + offset = 1 + offset
C11_Witness ==
    /\ Forward /\ n > 0
    /\ Len(out) = 2
    /\ out[2].id < rec.id
    /\ offset_header /\ out[2].topic \in offset_topics /\ offset > 0
    /\ min_valid_time = Some(1)
    /\ TimeFields(Payload(out[2])) = <<2 + offset, offset>>
    /\ out[2].t = 1 + offset

----------------------------------------------------------------------------
\* the record without embedded time is emitted by its own call
C12_Inv ==
    (Forward /\ n > 0 /\ EmbeddedTime(RecMsg) = None) =>
        /\ Len(out) >= 1
        /\ out[1].id = rec.id
        /\ out[1].topic = rec.topic
        /\ out[1].t = rec.t + (IF rec.topic \in offset_topics THEN offset ELSE 0)
        /\ rec.id \notin dropped
        /\ rec.id \notin Ids(delayed_msgs)

\* and leaves _min_valid_time alone
C12_Step ==
    (Forward /\ Call /\ EmbeddedTime(rec'.data.cdr) = None) =>
        min_valid_time' = min_valid_time

\* C12: in forward mode a record whose payload has no embedded time (no
\* header, or an empty collection) is neither dropped nor delayed: its call
\* emits it with the recorder timestamp, plus offset on an offset topic, and
\* does not change _min_valid_time.
C12_NoTimeFallsBack == []C12_Inv /\ [][C12_Step]_vars

\* an empty MarkerArray on an offset topic went out with t + offset while
\* _min_valid_time was set
C12_Witness ==
    /\ Forward /\ n > 0
    /\ RecMsg = MarkerArray(<<>>)
    /\ rec.t = 3
    /\ rec.topic \in offset_topics /\ offset > 0
    /\ min_valid_time # None
    /\ out[1].t = 3 + offset

----------------------------------------------------------------------------
\* the call that delays a TFMessage
C15_Step ==
    (Forward /\ Call /\ IsTF(rec'.data.cdr) /\ HasInvalidTime(rec'.data.cdr)) =>
        /\ out' = <<>>
        /\ Len(delayed_msgs') = Len(delayed_msgs) + 1
        /\ SubSeq(delayed_msgs', 1, Len(delayed_msgs)) = delayed_msgs
        /\ delayed_msgs'[Len(delayed_msgs')].id = rec'.id
        /\ delayed_msgs'[Len(delayed_msgs')].topic = rec'.topic
        /\ delayed_msgs'[Len(delayed_msgs')].msg = rec'.data.cdr
        /\ delayed_msgs'[Len(delayed_msgs')].t = Val(EmbeddedTime(rec'.data.cdr))
        /\ min_valid_time' = min_valid_time
        /\ emitted' = emitted

\* C15: in forward mode a TFMessage whose minimum embedded time is <= 0 is
\* appended at the tail of the delayed list and the call returns at once: it
\* emits nothing, keeps the earlier entries and _min_valid_time (also when
\* another element of the payload has a positive time) and flushes nothing,
\* even with _min_valid_time set.
C15_DelayReturnsAtOnce == [][C15_Step]_vars

\* with _min_valid_time set and one entry waiting, a TFMessage with stamps 2
\* and 0 was appended and nothing came out
C15_Witness ==
    /\ Forward /\ n = 3
    /\ RecMsg = TFMessage(<<2, 0>>)
    /\ out = <<>>
    /\ min_valid_time = Some(1)
    /\ Len(delayed_msgs) = 2
    /\ delayed_msgs[2].id = 3

----------------------------------------------------------------------------
\* C16: every entry of the delayed list was put there in forward mode, holds
\* a TFMessage, and its stored time is that message's minimum embedded time
\* and is <= 0; in invert mode the list is empty.
C16_DelayedEntries ==
    /\ (delayed_msgs # <<>> => Forward)
    /\ \A k \in DOMAIN delayed_msgs :
          /\ "transforms" \in DOMAIN delayed_msgs[k].msg
          /\ "header" \notin DOMAIN delayed_msgs[k].msg
          /\ "markers" \notin DOMAIN delayed_msgs[k].msg
          /\ TimeFields(delayed_msgs[k].msg) # <<>>
          /\ delayed_msgs[k].t = MinOf(RangeOf(TimeFields(delayed_msgs[k].msg)))
          /\ delayed_msgs[k].t <= 0
          /\ delayed_msgs[k].data = [cdr |-> delayed_msgs[k].msg]

\* the list holds a one-element and a two-element TFMessage
C16_Witness ==
    /\ Forward
    /\ Len(delayed_msgs) = 2
    /\ delayed_msgs[1].msg = TFMessage(<<0>>)
    /\ delayed_msgs[2].msg = TFMessage(<<2, 0>>)

----------------------------------------------------------------------------
\* every record is emitted, dropped or held, and only one of these
C17_Inv ==
    pc = "ready" =>
        /\ emitted \cup dropped \cup Ids(delayed_msgs) = 1..n
        /\ emitted \cap dropped = {}
        /\ emitted \cap Ids(delayed_msgs) = {}
        /\ dropped \cap Ids(delayed_msgs) = {}
        /\ Cardinality(Ids(delayed_msgs)) = Len(delayed_msgs)
        /\ n = Cardinality(emitted) + Cardinality(dropped) + Len(delayed_msgs)

\* every emission of a call is the first one of an input record
C17_Step ==
    Call =>
        /\ Cardinality(Ids(out')) = Len(out')
        /\ Ids(out') \cap emitted = {}
        /\ Ids(out') \subseteq {rec'.id} \cup Ids(delayed_msgs)
        /\ emitted' = emitted \cup Ids(out')
        /\ \A i \in DOMAIN out' :
              \/ out'[i].id = rec'.id /\ out'[i].topic = rec'.topic
              \/ \E k \in DOMAIN delayed_msgs :
                    /\ out'[i].id = delayed_msgs[k].id
                    /\ out'[i].topic = delayed_msgs[k].topic

\* C17: after any sequence of filter_msg calls every input record has been
\* emitted once, or dropped, or is held in the delayed list, and only one of
\* the three: records processed = emitted + dropped + held; no record is
\* emitted twice and every emission comes from an input record.
C17_Conservation == []C17_Inv /\ [][C17_Step]_vars

\* one record of each kind
C17_Witness ==
    /\ Forward /\ n = 3
    /\ Cardinality(emitted) = 1
    /\ Cardinality(dropped) = 1
    /\ Len(delayed_msgs) = 1

----------------------------------------------------------------------------
\* C18: in forward mode, after a call that emitted its own record and leaves
\* _min_valid_time set, the delayed list is empty: the list is non-empty with
\* _min_valid_time set only after a call that delayed or dropped its record.
C18_EmittingCallLeavesNoDelayed ==
    (Forward /\ n > 0 /\ min_valid_time # None /\ Positions(out, rec.id) # {}) =>
        delayed_msgs = <<>>

\* an entry delayed after _min_valid_time was set is gone after the next
\* record with a positive time
C18_Witness ==
    /\ Forward /\ n = 3
    /\ HasPositiveTime(RecMsg)
    /\ Len(out) = 2
    /\ seen = {1, 2}
    /\ delayed_msgs = <<>>

----------------------------------------------------------------------------
\* the emissions of a call after the first are the delayed messages
C19_Step ==
    (Forward /\ Call /\ Len(out') > 1) =>
        /\ seen' # {}
        /\ \A i \in 2..Len(out') :
              /\ out'[i].t - (IF out'[i].topic \in offset_topics THEN offset ELSE 0)
                    = MinOf(seen')
              /\ HasPositiveTime(rec'.data.cdr) =>
                    out'[i].t - (IF out'[i].topic \in offset_topics THEN offset ELSE 0)
                        <= Val(EmbeddedTime(rec'.data.cdr))

\* C19: in a forward-mode call that emits delayed messages, all of them get
\* the same timestamp before the offset: the minimum of the strictly positive
\* embedded times of the records up to and including the one of this call;
\* when that record has a positive embedded time T, the timestamp is <= T.
C19_FlushedAtRunningMinimum == [][C19_Step]_vars

\* a record with time 2 pushes out, on an offset topic, a message delayed
\* after a record with time 1
C19_Witness ==
    /\ Forward /\ n = 3
    /\ Len(out) = 2
    /\ EmbeddedTime(RecMsg) = Some(2)
    /\ out[2].topic \in offset_topics /\ offset > 0
    /\ out[2].t = 1 + offset
    /\ out[1].t >= 2

----------------------------------------------------------------------------
\* C20: in forward mode with offset = 0 or no offset topic, every emission
\* whose payload carries an embedded time has a timestamp > 0; a timestamp
\* <= 0 is the recorder timestamp of a record whose payload has no embedded
\* time.
C20_PositiveUnlessNoTime ==
    (Forward /\ (offset = 0 \/ offset_topics = {})) =>
        \A i \in DOMAIN out :
            /\ IsSome(EmbeddedTime(Payload(out[i]))) => out[i].t > 0
            /\ out[i].t <= 0 =>
                  /\ EmbeddedTime(Payload(out[i])) = None
                  /\ out[i].id = rec.id
                  /\ EmbeddedTime(RecMsg) = None
                  /\ rec.t <= 0
                  /\ out[i].t = rec.t

\* a payload without embedded time, recorded at 0, comes out at 0 and pushes
\* out a delayed message whose own time is 0, at a timestamp > 0
C20_Witness ==
    /\ Forward /\ offset = 0 /\ n = 3
    /\ Len(out) = 2
    /\ EmbeddedTime(RecMsg) = None
    /\ out[1].t = 0
    /\ EmbeddedTime(Payload(out[2])) = Some(0)
    /\ out[2].t = 1

----------------------------------------------------------------------------
\* the offset topics are those of the metadatas that match
C13_Inv ==
    pc = "ready" =>
        /\ offset_topics \subseteq args.metadatas
        /\ offset_topics =
              {name \in args.metadatas : \E r \in args.offset_topic : re_match(r, name)}

\* the timestamp and the time fields the record of the call is emitted with
\* when no offset is applied
C13_OwnT ==
    IF ~invert /\ HasPositiveTime(rec'.data.cdr)
    THEN Val(EmbeddedTime(rec'.data.cdr)) ELSE rec'.t

C13_OwnFields ==
    IF invert THEN [k \in DOMAIN TimeFields(rec'.data.cdr) |-> rec'.t]
    ELSE TimeFields(rec'.data.cdr)

\* filter_msg leaves the configuration alone, and what it emits on a topic
\* that is not in the metadatas carries no offset
C13_Step ==
    Call =>
        /\ UNCHANGED <<offset_topics, offset, offset_header, invert, args>>
        /\ \A i \in DOMAIN out' :
              out'[i].topic \notin args.metadatas =>
                  IF out'[i].id = rec'.id
                  THEN /\ out'[i].t = C13_OwnT
                       /\ TimeFields(out'[i].data.cdr) = C13_OwnFields
                  ELSE /\ out'[i].t = Val(min_valid_time')
                       /\ \E k \in DOMAIN delayed_msgs :
                             /\ delayed_msgs[k].id = out'[i].id
                             /\ out'[i].data.cdr = delayed_msgs[k].msg

\* C13: _offset_topics is computed once, in set_args, from the topics of the
\* metadatas, and no filter_msg call changes it, nor offset, offset_header or
\* invert: a record on a topic the metadatas did not list never gets the
\* offset, even if its name matches an --offset-topic pattern.
C13_OffsetTopicsFixed == []C13_Inv /\ [][C13_Step]_vars

\* with an offset applied to headers too, a record on a topic that matches a
\* pattern but is not in the metadatas is emitted, and a delayed one with it,
\* both without offset, after an emission on the listed topic
C13_Witness ==
    /\ Forward /\ n = 3
    /\ args.metadatas = {TopicTf}
    /\ offset_topics = {TopicTf}
    /\ \E r \in args.offset_topic : re_match(r, TopicTfStatic)
    /\ offset > 0 /\ offset_header
    /\ Len(out) = 2
    /\ out[1].topic = TopicTfStatic
    /\ out[2].topic = TopicTfStatic
    /\ out[1].t = 1
    /\ out[2].t = 1

----------------------------------------------------------------------------
\* how often the fallback warning was logged for the topic
C14_Fallbacks(logged, topic) ==
    CopiesIn(<<topic, "has no header, using bag timestamp instead">>, logged)

\* nothing is logged before the first record, and no message twice
C14_Inv ==
    /\ n = 0 => warned = EmptyBag
    /\ \A m \in BagToSet(warned) : CopiesIn(m, warned) = 1
    /\ \A m \in BagToSet(warned) :
          Len(m) = 2 => \E topic \in Topics : C14_Fallbacks(warned, topic) = 1 /\ m[1] = topic

\* after a record without embedded time its topic has one fallback warning
\* and the record is emitted; no other call changes the count of a topic
C14_Step ==
    (Forward /\ Call) =>
        \A topic \in Topics :
            IF rec'.topic = topic /\ EmbeddedTime(rec'.data.cdr) = None
            THEN /\ C14_Fallbacks(warned', topic) = 1
                 /\ Len(out') >= 1
                 /\ out'[1].id = rec'.id
                 /\ out'[1].topic = topic
                 /\ out'[1].t - (IF topic \in offset_topics THEN offset ELSE 0) = rec'.t
            ELSE C14_Fallbacks(warned', topic) = C14_Fallbacks(warned, topic)

====
